---------------------------- MODULE Spec2Model ----------------------------
(***************************************************************************)
(* Model of the Agent-E browser skills                                     *)
(*   ae/core/skills/click_using_selector.py      (click, do_click,         *)
(*                                                perform_javascript_click)*)
(*   ae/core/skills/enter_text_using_selector.py (entertext, do_entertext, *)
(*                                                custom_fill_element,     *)
(*                                                bulk_enter_text)         *)
(*   ae/core/skills/get_dom_with_content_type.py                           *)
(*                                         (get_dom_with_content_type)     *)
(* Every await of the source is one step of the model.  A Playwright call  *)
(* either completes or raises; which of the two happens is chosen by the   *)
(* environment.  The page is a small DOM whose elements the environment    *)
(* may attach and detach between any two steps of a call.                  *)
(*                                                                         *)
(* Python values are modelled as follows.                                  *)
(*   - a string built by an f-string is the tuple of its fragments, so     *)
(*     that the text interpolated into a message can be read back;         *)
(*   - an optional value (an element handle, an attribute) is the empty    *)
(*     tuple for None and a one-element tuple otherwise;                   *)
(*   - element_detached says that the node the handle in element refers   *)
(*     to has left the document (a node attached later under the same      *)
(*     selector is another node);                                          *)
(*   - log is the list of the effects the current facade call has had on   *)
(*     the page and on the collaborators, in the order they happened.      *)
(*                                                                         *)
(* Four specifications are given.  Spec: one caller, one call at a time,   *)
(* collaborators that complete.  SpecCollab: the same with collaborators   *)
(* that may raise.  SpecLive: Spec with the progress the timeouts of the   *)
(* source guarantee.  SpecTwo: two tasks of one event loop calling click   *)
(* and entertext on the same page.                                         *)
(***************************************************************************)
EXTENDS Integers, Sequences, FiniteSets, TLC

\* ---------------------------------------------------------------- bounds
MaxEntries == 2        \* longest list handed to bulk_enter_text
MaxValLen  == 2        \* longest value (in fragments) an element may hold

\* ------------------------------------------------------------ the page
Selectors == {"#lnk", "#opt", "#grp_opt", "#user", "#pass"}
Waits == {0, 1}

None == <<>>
Some(x) == <<x>>

\* element => element.tagName.toLowerCase()
TagOf(s) ==
    CASE s = "#lnk"  -> "a"
      [] s = "#opt"  -> "option"
      [] s = "#grp_opt" -> "option"
      [] OTHER       -> "input"

\* element.get_attribute("value"): None when the attribute is missing
ValueAttr(s) ==
    CASE s = "#opt"     -> Some("v1")
      [] s = "#grp_opt" -> Some("v2")
      [] OTHER          -> None

\* element => element.parentNode: #opt is a child of its select, #grp_opt
\* a child of an optgroup of its select
ParentOf(s) ==
    CASE s = "#opt"     -> "select"
      [] s = "#grp_opt" -> "optgroup"
      [] OTHER          -> "body"

\* select_option works on a select element and raises on any other
\* ("Element is not a <select> element")
IsSelect(p) == p = "select"

\* str() of an optional value, as an f-string interpolates it
PyStr(v) == IF v = None THEN "None" ELSE v[1]

\* the target attribute a freshly attached element carries
FreshTarget(s) == IF TagOf(s) = "a" THEN "_blank" ELSE ""

\* ------------------------------------------------------- error texts
ErrTimeout == "Timeout 2000ms exceeded."
ErrPlaywright == "Target page, context or browser has been closed"
ErrDetached == "Element is not attached to the DOM"
ErrNull == "TypeError: Cannot set properties of null (setting 'value')"
ErrNoSelect == "'JSHandle' object has no attribute 'select_option'"
ErrNotSelect == "Element is not a <select> element"
ErrNotFound == "Element with selector not found"

\* ------------------------------------------------------ outcome strings
NoPageError == <<"No active page found. OpenURL command opens a new page.">>

OptionSelectedMsg(v) ==
    <<"Select menu option \"", PyStr(v), "\" selected">>

ClickedMsg(sel) ==
    <<"Element with selector: \"", sel, "\" clicked.">>

UnableToClickMsg(sel) ==
    <<"Unable to click element with selector: \"", sel,
      "\" since the selector is invalid. Proceed by retrieving DOM again.">>

EnterNoPageMsg ==
    <<"Error: No active page found. OpenURL command opens a new page.">>

SelectorNotFoundMsg(sel) ==
    <<"Error: Selector ", sel, " not found. Unable to continue.">>

EnterSuccessMsg(txt, sel) ==
    <<"Success. Text \"", txt,
      "\" set successfully in the element with selector ", sel>>

EnterErrorMsg(sel, e) ==
    <<"Error entering text in selector ", sel, ". Error: ", e>>

VARIABLES
    hasPage,                \* get_current_page() returns a page (TRUE) or None
    attached,               \* the selectors that resolve to an element
    target,                 \* target attribute of every element
    value,                  \* value property of every element
    op,                     \* the public operation in progress
    pc,                     \* the await the call is suspended at
    selector,               \* argument selector / query_selector
    text_to_enter,          \* argument text
    wait_before_execution,  \* argument of click
    use_keyboard_fill,      \* argument of do_entertext
    element,                \* local element / elem
    element_detached,       \* the node behind element has left the document
    element_tag_name,       \* local of do_click
    element_value,          \* local of do_click
    parent_element,         \* local of do_click
    result,                 \* local result
    entries,                \* argument of bulk_enter_text
    results,                \* local of bulk_enter_text
    log,                    \* effects of the current facade call, in order
    attempts,               \* the entertext calls that have ended, in order
    last_clicked,           \* selector the previous call clicked, element kept
    content_type,           \* argument of get_dom_with_content_type
    extracted_data,         \* local of get_dom_with_content_type
    user_success_message,   \* local of get_dom_with_content_type
    current,                \* the task the event loop is running
    other,                  \* the frame of the task that is suspended
    mark,                   \* length of log when the running task resumed
    steps,                  \* the tasks in the order they acted on the page
    ret                     \* how the last call ended

vars == <<hasPage, attached, target, value, op, pc, selector, text_to_enter,
          wait_before_execution, use_keyboard_fill, element,
          element_detached, element_tag_name, element_value, parent_element,
          result, entries, results, log, attempts, last_clicked,
          content_type, extracted_data, user_success_message, current,
          other, mark, steps, ret>>

tasks == <<current, other, mark, steps>>

getDomLocals == <<content_type, extracted_data, user_success_message>>

dom == <<attached, target, value>>
clickLocals == <<element, element_detached, element_tag_name, element_value,
                 parent_element>>
args == <<selector, text_to_enter, wait_before_execution, use_keyboard_fill>>
bulk == <<entries, results, attempts>>

NoRet == [kind |-> "none", val |-> <<>>]
Returned(v) == [kind |-> "returned", val |-> v]
Raised(e) == [kind |-> "raised", val |-> e]

Entry(sel, txt) == [query_selector |-> sel, text |-> txt]
\* the text entries the callers hand in
EnterInputs == {Entry("#user", "alice"), Entry("#pass", "s3cret")}
EntryLists == UNION {[1..n -> EnterInputs] : n \in 0..MaxEntries}

\* the state of a call that has not started
NoCall ==
    /\ op = "none"
    /\ pc = "idle"
    /\ selector = "#lnk"
    /\ text_to_enter = "alice"
    /\ wait_before_execution = 0
    /\ use_keyboard_fill = FALSE
    /\ element = None
    /\ element_detached = FALSE
    /\ element_tag_name = ""
    /\ element_value = None
    /\ parent_element = None
    /\ result = <<>>
    /\ entries = <<>>
    /\ results = <<>>
    /\ log = <<>>
    /\ attempts = <<>>
    /\ last_clicked = None
    /\ content_type = "all_fields"
    /\ extracted_data = None
    /\ user_success_message = ""
    /\ ret = NoRet

\* the frame of a task that has made no call
IdleFrame ==
    [op |-> "none", pc |-> "idle", selector |-> "#lnk",
     text_to_enter |-> "alice", wait_before_execution |-> 0,
     use_keyboard_fill |-> FALSE, element |-> None,
     element_detached |-> FALSE, element_tag_name |-> "",
     element_value |-> None, parent_element |-> None, result |-> <<>>,
     entries |-> <<>>, results |-> <<>>, log |-> <<>>, attempts |-> <<>>,
     last_clicked |-> None, content_type |-> "all_fields",
     extracted_data |-> None, user_success_message |-> "", ret |-> NoRet]

\* one task runs, no other task is in flight
OneTask ==
    /\ current = 1
    /\ other = IdleFrame
    /\ mark = 0
    /\ steps = <<>>

Init ==
    /\ hasPage \in BOOLEAN
    /\ attached \in SUBSET Selectors
    /\ target = [s \in Selectors |-> FreshTarget(s)]
    /\ value = [s \in Selectors |-> <<>>]
    /\ NoCall
    /\ OneTask

\* ------------------------------------------------------ the environment
\* the browser session opens or closes the page between two calls
EnvOpenPage ==
    /\ pc = "idle" /\ ~hasPage
    /\ hasPage' = TRUE
    /\ UNCHANGED <<tasks, last_clicked, getDomLocals, dom, op, pc, args,
                   clickLocals, result, bulk, log, ret>>

EnvClosePage ==
    /\ pc = "idle" /\ hasPage
    /\ hasPage' = FALSE
    /\ last_clicked' = None
    /\ UNCHANGED <<tasks, getDomLocals, dom, op, pc, args, clickLocals,
                   result, bulk, log, ret>>

\* the page attaches an element: a fresh node, with its initial properties
EnvAttach(s) ==
    /\ pc # "done"
    /\ s \notin attached
    /\ attached' = attached \cup {s}
    /\ target' = [target EXCEPT ![s] = FreshTarget(s)]
    /\ value' = [value EXCEPT ![s] = <<>>]
    /\ last_clicked' = IF last_clicked = Some(s) THEN None ELSE last_clicked
    /\ UNCHANGED <<hasPage, tasks, getDomLocals, op, pc, args, clickLocals,
                   result, bulk, log, ret>>

\* the page removes an element; a handle to it now refers to a detached node
EnvDetach(s) ==
    /\ pc # "done"
    /\ s \in attached
    /\ attached' = attached \ {s}
    /\ target' = [target EXCEPT ![s] = FreshTarget(s)]
    /\ value' = [value EXCEPT ![s] = <<>>]
    /\ element_detached' = (element_detached \/ element = Some(s))
    /\ last_clicked' = IF last_clicked = Some(s) THEN None ELSE last_clicked
    /\ UNCHANGED <<hasPage, tasks, getDomLocals, op, pc, args, element,
                   element_tag_name, element_value, parent_element, result,
                   bulk, log, ret>>

\* the call has ended and its caller goes on: the frame of the call is gone
Resume ==
    /\ pc = "done"
    /\ op' = "none"
    /\ pc' = "idle"
    /\ selector' = "#lnk"
    /\ text_to_enter' = "alice"
    /\ wait_before_execution' = 0
    /\ use_keyboard_fill' = FALSE
    /\ element' = None
    /\ element_detached' = FALSE
    /\ element_tag_name' = ""
    /\ element_value' = None
    /\ parent_element' = None
    /\ result' = <<>>
    /\ entries' = <<>>
    /\ results' = <<>>
    /\ log' = <<>>
    /\ attempts' = <<>>
    /\ last_clicked' = IF /\ op = "click"
                          /\ ret = Returned(ClickedMsg(selector))
                          /\ selector \in attached
                       THEN Some(selector)
                       ELSE None
    /\ content_type' = "all_fields"
    /\ extracted_data' = None
    /\ user_success_message' = ""
    /\ ret' = NoRet
    /\ mark' = 0
    /\ UNCHANGED <<hasPage, current, other, steps, dom>>

\* ================================================================ click
\* mutant of CallClick: a selector clicked by the previous call is not
\* clicked again, the outcome of that call is returned
CallClick_ReuseResult(sel, w) ==
    /\ pc = "idle"
    /\ op' = "click"
    /\ pc' = IF last_clicked = Some(sel) THEN "done" ELSE "c_page"
    /\ ret' = IF last_clicked = Some(sel)
              THEN Returned(ClickedMsg(sel))
              ELSE ret
    /\ selector' = sel
    /\ wait_before_execution' = w
    /\ UNCHANGED <<hasPage, tasks, getDomLocals, last_clicked, dom,
                   text_to_enter, use_keyboard_fill, clickLocals, result,
                   bulk, log>>

\* click(selector, wait_before_execution): entry of the facade
CallClick(sel, w) ==
    /\ pc = "idle"
    /\ op' = "click"
    /\ pc' = "c_page"
    /\ selector' = sel
    /\ wait_before_execution' = w
    /\ last_clicked' = IF last_clicked = Some(sel) THEN last_clicked ELSE None
    /\ UNCHANGED <<hasPage, tasks, getDomLocals, dom, text_to_enter,
                   use_keyboard_fill, clickLocals, result, bulk, log, ret>>

\* mutant of ClickNoPage: the missing page is reported as a string
ClickNoPage_ReturnsString ==
    /\ pc = "c_page" /\ ~hasPage
    /\ ret' = Returned(EnterNoPageMsg)
    /\ pc' = "done"
    /\ UNCHANGED <<hasPage, tasks, getDomLocals, last_clicked, dom, op, args,
                   clickLocals, result, bulk, log>>

\* page is None: raise ValueError
ClickNoPage ==
    /\ pc = "c_page" /\ ~hasPage
    /\ ret' = Raised(NoPageError)
    /\ pc' = "done"
    /\ UNCHANGED <<hasPage, tasks, getDomLocals, last_clicked, dom, op, args,
                   clickLocals, result, bulk, log>>

ClickGetPage ==
    /\ pc = "c_page" /\ hasPage
    /\ pc' = "c_highlight"
    /\ UNCHANGED <<hasPage, tasks, getDomLocals, last_clicked, dom, op, args,
                   clickLocals, result, bulk, log, ret>>

\* await browser_manager.highlight_element(selector, True)
ClickHighlight ==
    /\ pc = "c_highlight"
    /\ log' = Append(log, <<"highlight", selector>>)
    /\ pc' = IF wait_before_execution > 0 THEN "c_sleep" ELSE "c_wait"
    /\ UNCHANGED <<hasPage, tasks, getDomLocals, last_clicked, dom, op, args,
                   clickLocals, result, bulk, ret>>

\* await asyncio.sleep(wait_before_execution)
ClickSleep ==
    /\ pc = "c_sleep"
    /\ log' = Append(log, <<"sleep", selector>>)
    /\ pc' = "c_wait"
    /\ UNCHANGED <<hasPage, tasks, getDomLocals, last_clicked, dom, op, args,
                   clickLocals, result, bulk, ret>>

\* mutant of ClickExcept: the handler lets the exception go on to the caller
ClickExcept_Reraise(ev) ==
    /\ ret' = Raised(<<ev[3]>>)
    /\ log' = Append(log, ev)
    /\ pc' = "done"
    /\ UNCHANGED <<hasPage, tasks, getDomLocals, last_clicked, dom, op, args,
                   clickLocals, result, bulk>>

\* mutant of ClickExcept: the failure message is returned without the
\* notification
ClickExcept_NoNotify(ev) ==
    /\ result' = UnableToClickMsg(selector)
    /\ ret' = Returned(UnableToClickMsg(selector))
    /\ log' = Append(log, ev)
    /\ pc' = "done"
    /\ UNCHANGED <<hasPage, tasks, getDomLocals, last_clicked, dom, op, args,
                   clickLocals, bulk>>

\* except Exception as e: ... return "Unable to click ..."
ClickExcept(ev) ==
    /\ result' = UnableToClickMsg(selector)
    /\ log' = Append(log, ev)
    /\ pc' = "c_notify"
    /\ UNCHANGED <<hasPage, tasks, getDomLocals, last_clicked, dom, op, args,
                   clickLocals, bulk, ret>>

\* wait_for_selector(selector, state="attached") returns the element
ClickWaitAttached ==
    /\ pc = "c_wait" /\ selector \in attached
    /\ element' = Some(selector)
    /\ log' = Append(log, <<"wait_attached", selector>>)
    /\ pc' = "c_scroll"
    /\ UNCHANGED <<hasPage, tasks, getDomLocals, last_clicked, dom, op, args,
                   element_detached, element_tag_name, element_value,
                   parent_element, result, bulk, ret>>

\* mutant of ClickWaitTimeout: wait_for_selector is awaited without timeout,
\* so nothing ends the wait while the element stays absent
ClickWaitTimeout_NoTimeout ==
    /\ pc = "c_wait" /\ selector \notin attached
    /\ FALSE
    /\ UNCHANGED vars

\* the wait budget runs out before the element is attached
ClickWaitTimeout ==
    /\ pc = "c_wait" /\ selector \notin attached
    /\ ClickExcept(<<"wait_failed", selector, ErrTimeout>>)

\* wait_for_selector yields None: raise ValueError(... not found)
ClickWaitNone ==
    /\ pc = "c_wait" /\ selector \notin attached
    /\ ClickExcept(<<"wait_failed", selector, ErrNotFound>>)

\* wait_for_selector raises for another reason
ClickWaitError ==
    /\ pc = "c_wait"
    /\ ClickExcept(<<"wait_failed", selector, ErrPlaywright>>)

\* element.scroll_into_view_if_needed(timeout=200); a failure is swallowed
ClickScroll(ok) ==
    /\ pc = "c_scroll"
    /\ log' = Append(log, <<"scroll", selector, ok>>)
    /\ pc' = "c_visible"
    /\ UNCHANGED <<hasPage, tasks, getDomLocals, last_clicked, dom, op, args,
                   clickLocals, result, bulk, ret>>

\* mutant of ClickVisible: the exception of the visibility wait is not
\* swallowed, it reaches the handler of do_click
ClickVisible_NotSwallowed(ok) ==
    /\ pc = "c_visible"
    /\ log' = Append(log, <<"visible", selector, ok>>)
    /\ pc' = IF ok THEN "c_tag" ELSE "c_notify"
    /\ result' = IF ok THEN result ELSE UnableToClickMsg(selector)
    /\ UNCHANGED <<hasPage, tasks, getDomLocals, last_clicked, dom, op, args,
                   clickLocals, bulk, ret>>

\* element.wait_for_element_state("visible", timeout=200); failure swallowed
ClickVisible(ok) ==
    /\ pc = "c_visible"
    /\ log' = Append(log, <<"visible", selector, ok>>)
    /\ pc' = "c_tag"
    /\ UNCHANGED <<hasPage, tasks, getDomLocals, last_clicked, dom, op, args,
                   clickLocals, result, bulk, ret>>

\* element_tag_name = await element.evaluate(tagName.toLowerCase())
ClickTag ==
    /\ pc = "c_tag"
    /\ element_tag_name' = TagOf(element[1])
    /\ log' = Append(log, <<"tag", selector>>)
    /\ pc' = IF TagOf(element[1]) = "option" THEN "c_attr" ELSE "c_focus"
    /\ UNCHANGED <<hasPage, tasks, getDomLocals, last_clicked, dom, op, args,
                   element, element_detached, element_value, parent_element,
                   result, bulk, ret>>

ClickTagRaise ==
    /\ pc = "c_tag"
    /\ ClickExcept(<<"tag_failed", selector, ErrPlaywright>>)

\* element_value = await element.get_attribute("value")
ClickAttr ==
    /\ pc = "c_attr"
    /\ element_value' = ValueAttr(element[1])
    /\ log' = Append(log, <<"get_attribute", selector>>)
    /\ pc' = "c_parent"
    /\ UNCHANGED <<hasPage, tasks, getDomLocals, last_clicked, dom, op, args,
                   element, element_detached, element_tag_name,
                   parent_element, result, bulk, ret>>

ClickAttrRaise ==
    /\ pc = "c_attr"
    /\ ClickExcept(<<"get_attribute_failed", selector, ErrPlaywright>>)

\* parent_element = await element.evaluate_handle(parentNode): the parent
\* of a node that has left the document is null
ClickParent ==
    /\ pc = "c_parent"
    /\ parent_element' = IF element_detached
                           THEN None ELSE Some(ParentOf(element[1]))
    /\ log' = Append(log, <<"parent", selector>>)
    /\ pc' = "c_select"
    /\ UNCHANGED <<hasPage, tasks, getDomLocals, last_clicked, dom, op, args,
                   element, element_detached, element_tag_name, element_value,
                   result, bulk, ret>>

ClickParentRaise ==
    /\ pc = "c_parent"
    /\ ClickExcept(<<"parent_failed", selector, ErrPlaywright>>)

\* await parent_element.select_option(value=element_value); return message
ClickSelect ==
    /\ pc = "c_select" /\ parent_element # None /\ IsSelect(parent_element[1])
    /\ log' = Append(log, <<"select_option", parent_element[1], element_value>>)
    /\ result' = OptionSelectedMsg(element_value)
    /\ pc' = "c_notify"
    /\ UNCHANGED <<hasPage, tasks, getDomLocals, last_clicked, dom, op, args,
                   clickLocals, bulk, ret>>

\* select_option raises; it always does on a null parent handle and on a
\* parent that is no select
ClickSelectRaise ==
    /\ pc = "c_select"
    /\ ClickExcept(<<"select_option_failed", selector,
                     IF parent_element = None THEN ErrNoSelect
                     ELSE IF ~IsSelect(parent_element[1]) THEN ErrNotSelect
                     ELSE ErrPlaywright>>)

\* await element.focus(): needs the element in the document
ClickFocus ==
    /\ pc = "c_focus" /\ ~element_detached
    /\ log' = Append(log, <<"focus", selector>>)
    /\ pc' = "c_js"
    /\ UNCHANGED <<hasPage, tasks, getDomLocals, last_clicked, dom, op, args,
                   clickLocals, result, bulk, ret>>

\* mutant of ClickFocusRaise: the exception of focus is swallowed like the
\* one of the scroll, the click script follows
ClickFocusRaise_Swallowed ==
    /\ pc = "c_focus"
    /\ log' = Append(log, <<"focus_failed", selector,
                      IF element_detached THEN ErrDetached ELSE ErrPlaywright>>)
    /\ pc' = "c_js"
    /\ UNCHANGED <<hasPage, tasks, getDomLocals, last_clicked, dom, op, args,
                   clickLocals, result, bulk, ret>>

\* element.focus() raises (a detached node, a closed page)
ClickFocusRaise ==
    /\ pc = "c_focus"
    /\ ClickExcept(<<"focus_failed", selector,
                     IF element_detached THEN ErrDetached ELSE ErrPlaywright>>)

\* mutant of JsClickScript: the anchor is clicked before its target is set
JsClickScript_ClickBeforeTarget(sel, att, tgt) ==
    IF sel \notin att
      THEN [ev |-> <<>>, tgt |-> tgt,
            res |-> <<"perform_javascript_click: Element with selector ",
                      sel, " not found">>]
    ELSE IF TagOf(sel) = "option"
      THEN [ev |-> << <<"set_parent_value", sel>>,
                      <<"dispatch_change", sel>> >>,
            tgt |-> tgt,
            res |-> <<"Select menu option: ", sel, " selected">>]
    ELSE LET t1 == IF TagOf(sel) = "a"
                     THEN [tgt EXCEPT ![sel] = "_self"] ELSE tgt
             e1 == IF TagOf(sel) = "a"
                     THEN << <<"set_target", sel, "_self">> >> ELSE <<>>
         IN [ev |-> << <<"js_click", sel, tgt[sel]>> >> \o e1,
             tgt |-> t1,
             res |-> <<"Executed JavaScript Click on element with selector: ",
                       sel>>]

\* js_code of perform_javascript_click, run inside the page: the effects on
\* the page in order (ev), the target attributes afterwards (tgt) and the
\* string the script returns (res)
JsClickScript(sel, att, tgt) ==
    IF sel \notin att
      THEN [ev |-> <<>>, tgt |-> tgt,
            res |-> <<"perform_javascript_click: Element with selector ",
                      sel, " not found">>]
    ELSE IF TagOf(sel) = "option"
      THEN [ev |-> << <<"set_parent_value", sel>>,
                      <<"dispatch_change", sel>> >>,
            tgt |-> tgt,
            res |-> <<"Select menu option: ", sel, " selected">>]
    ELSE LET t1 == IF TagOf(sel) = "a"
                     THEN [tgt EXCEPT ![sel] = "_self"] ELSE tgt
             e1 == IF TagOf(sel) = "a"
                     THEN << <<"set_target", sel, "_self">> >> ELSE <<>>
         IN [ev |-> e1 \o << <<"js_click", sel, t1[sel]>> >>,
             tgt |-> t1,
             res |-> <<"Executed JavaScript Click on element with selector: ",
                       sel>>]

\* what do_click returns after perform_javascript_click has come back
AfterJavascriptClick(sel, raised) == ClickedMsg(sel)

\* await perform_javascript_click(page, selector): page.evaluate completes
ClickJs ==
    /\ pc = "c_js"
    /\ LET r == JsClickScript(selector, attached, target)
       IN /\ log' = log \o r.ev
          /\ target' = r.tgt
    /\ result' = AfterJavascriptClick(selector, FALSE)
    /\ pc' = "c_notify"
    /\ UNCHANGED <<hasPage, tasks, getDomLocals, last_clicked, attached,
                   value, op, args, clickLocals, bulk, ret>>

\* page.evaluate raises inside perform_javascript_click: logged, swallowed
ClickJsRaise ==
    /\ pc = "c_js"
    /\ log' = Append(log, <<"js_failed", selector, ErrPlaywright>>)
    /\ result' = AfterJavascriptClick(selector, TRUE)
    /\ pc' = "c_notify"
    /\ UNCHANGED <<hasPage, tasks, getDomLocals, last_clicked, dom, op, args,
                   clickLocals, bulk, ret>>

\* await browser_manager.notify_user(result); return result
ClickNotify ==
    /\ pc = "c_notify"
    /\ log' = Append(log, <<"notify", result>>)
    /\ ret' = Returned(result)
    /\ pc' = "done"
    /\ UNCHANGED <<hasPage, tasks, getDomLocals, last_clicked, dom, op, args,
                   clickLocals, result, bulk>>

\* ============================================================ entertext
\* mutant of CallEntertext: do_entertext is called for simulated typing
CallEntertext_KeyboardFill(sel, txt) ==
    /\ pc = "idle"
    /\ op' = "entertext"
    /\ pc' = "e_page"
    /\ selector' = sel
    /\ text_to_enter' = txt
    /\ use_keyboard_fill' = TRUE
    /\ last_clicked' = None
    /\ UNCHANGED <<hasPage, tasks, getDomLocals, dom, wait_before_execution,
                   clickLocals, result, bulk, log, ret>>

\* entertext(entry): entry of the facade
CallEntertext(sel, txt) ==
    /\ pc = "idle"
    /\ op' = "entertext"
    /\ pc' = "e_page"
    /\ selector' = sel
    /\ text_to_enter' = txt
    /\ use_keyboard_fill' = FALSE
    /\ last_clicked' = None
    /\ UNCHANGED <<hasPage, tasks, getDomLocals, dom, wait_before_execution,
                   clickLocals, result, bulk, log, ret>>

\* do_entertext(page, selector, text_to_enter, use_keyboard_fill) called
\* on its own, with a page the caller holds; simulated typing appends to
\* the value, so a typing call needs room for the text and the space
CallDoEntertext(sel, txt, kb) ==
    /\ pc = "idle" /\ hasPage
    /\ kb => Len(value[sel]) + 2 <= MaxValLen
    /\ op' = "do_entertext"
    /\ pc' = "e_query"
    /\ selector' = sel
    /\ text_to_enter' = txt
    /\ use_keyboard_fill' = kb
    /\ last_clicked' = None
    /\ UNCHANGED <<hasPage, tasks, getDomLocals, dom, wait_before_execution,
                   clickLocals, result, bulk, log, ret>>

\* mutant of EnterReturns: in the loop the call is left to end on its own,
\* the loop goes on without its outcome
EnterReturns_NoRecord(v) ==
    IF op = "bulk"
      THEN /\ pc' = "b_loop"
           /\ UNCHANGED <<ret, entries, results>>
      ELSE /\ ret' = Returned(v)
           /\ pc' = "done"
           /\ UNCHANGED <<entries, results>>

\* a call of entertext hands its outcome to its caller: to the loop of
\* bulk_enter_text, which appends it to results, or to the outside
EnterReturns(v) ==
    IF op = "bulk"
      THEN /\ results' = Append(results,
                  [query_selector |-> entries[Len(results) + 1].query_selector,
                   result |-> v])
           /\ pc' = "b_loop"
           /\ UNCHANGED <<ret, entries>>
      ELSE /\ ret' = Returned(v)
           /\ pc' = "done"
           /\ UNCHANGED <<entries, results>>

\* bookkeeping: the call of entertext for (sel, txt) has ended with v
Attempted(sel, txt, v) ==
    attempts' = Append(attempts,
                       [query_selector |-> sel, text |-> txt, result |-> v])

\* mutant of EnterNoPage: the missing page is raised, as click raises it
EnterNoPage_Raises ==
    /\ pc = "e_page" /\ ~hasPage
    /\ ret' = Raised(NoPageError)
    /\ pc' = "done"
    /\ UNCHANGED <<hasPage, tasks, getDomLocals, last_clicked, dom, op, args,
                   clickLocals, result, bulk, log>>

\* page is None: return "Error: No active page found. ..."
EnterNoPage ==
    /\ pc = "e_page" /\ ~hasPage
    /\ result' = EnterNoPageMsg
    /\ EnterReturns(EnterNoPageMsg)
    /\ Attempted(selector, text_to_enter, EnterNoPageMsg)
    /\ UNCHANGED <<hasPage, tasks, getDomLocals, last_clicked, dom, op, args,
                   clickLocals, log>>

EnterGetPage ==
    /\ pc = "e_page" /\ hasPage
    /\ pc' = "e_highlight"
    /\ UNCHANGED <<hasPage, tasks, getDomLocals, last_clicked, dom, op, args,
                   clickLocals, result, bulk, log, ret>>

\* await browser_manager.highlight_element(query_selector, True)
EnterHighlight ==
    /\ pc = "e_highlight"
    /\ log' = Append(log, <<"highlight", selector>>)
    /\ pc' = "e_query"
    /\ UNCHANGED <<hasPage, tasks, getDomLocals, last_clicked, dom, op, args,
                   clickLocals, result, bulk, ret>>

\* do_entertext comes back with res: entertext goes on to notify_user, a
\* direct caller of do_entertext has its result
DoEntertextReturns(res) ==
    /\ result' = res
    /\ IF op = "do_entertext"
         THEN /\ ret' = Returned(res)
              /\ pc' = "done"
         ELSE /\ pc' = "e_notify"
              /\ UNCHANGED ret

\* mutant of EnterExcept: the handler lets the exception go on to the caller
EnterExcept_Reraise(ev, e) ==
    /\ ret' = Raised(<<e>>)
    /\ log' = Append(log, Append(ev, e))
    /\ pc' = "done"
    /\ UNCHANGED <<hasPage, tasks, getDomLocals, last_clicked, dom, op, args,
                   clickLocals, result, bulk>>

\* mutant of EnterExcept: the handler undoes the fill before it returns
EnterExcept_RestoresValue(ev, e) ==
    /\ DoEntertextReturns(EnterErrorMsg(selector, e))
    /\ log' = Append(log, Append(ev, e))
    /\ value' = [value EXCEPT ![selector] = <<>>]
    /\ UNCHANGED <<hasPage, tasks, getDomLocals, last_clicked, attached,
                   target, op, args, clickLocals, bulk>>

\* except Exception as e: return f"Error entering text ... Error: {str(e)}"
EnterExcept(ev, e) ==
    /\ DoEntertextReturns(EnterErrorMsg(selector, e))
    /\ log' = Append(log, Append(ev, e))
    /\ UNCHANGED <<hasPage, tasks, getDomLocals, last_clicked, dom, op, args,
                   clickLocals, bulk>>

\* elem = await page.query_selector(selector): the element
EnterQuery ==
    /\ pc = "e_query" /\ selector \in attached
    /\ element' = Some(selector)
    /\ log' = Append(log, <<"query_selector", selector>>)
    /\ element_detached' = FALSE
    /\ pc' = IF use_keyboard_fill THEN "e_kfocus" ELSE "e_fill"
    /\ UNCHANGED <<hasPage, tasks, getDomLocals, last_clicked, dom, op, args,
                   element_tag_name, element_value, parent_element, result,
                   bulk, ret>>

\* elem is None: return f"Error: Selector {selector} not found. ..."
EnterQueryNone ==
    /\ pc = "e_query" /\ selector \notin attached
    /\ DoEntertextReturns(SelectorNotFoundMsg(selector))
    /\ log' = Append(log, <<"query_selector_none", selector>>)
    /\ UNCHANGED <<hasPage, tasks, getDomLocals, last_clicked, dom, op, args,
                   clickLocals, bulk>>

EnterQueryRaise(e) ==
    /\ pc = "e_query"
    /\ EnterExcept(<<"query_selector_failed", selector>>, e)

\* the script of custom_fill_element, run inside the page:
\* document.querySelector(selector).value = text_to_enter
CustomFillScript(sel, txt, val) == [val EXCEPT ![sel] = <<txt>>]

\* await custom_fill_element(page, selector, text_to_enter)
EnterFill ==
    /\ pc = "e_fill" /\ selector \in attached
    /\ value' = CustomFillScript(selector, text_to_enter, value)
    /\ log' = Append(log, <<"assign_value", selector, text_to_enter>>)
    /\ pc' = "e_focus"
    /\ UNCHANGED <<hasPage, tasks, getDomLocals, last_clicked, attached,
                   target, op, args, clickLocals, result, bulk, ret>>

\* querySelector found nothing (the element has left the page): TypeError
EnterFillNull ==
    /\ pc = "e_fill" /\ selector \notin attached
    /\ EnterExcept(<<"assign_value_failed", selector>>, ErrNull)

EnterFillRaise ==
    /\ pc = "e_fill"
    /\ EnterExcept(<<"assign_value_failed", selector>>, ErrPlaywright)

\* use_keyboard_fill: await elem.focus()
EnterKbFocus ==
    /\ pc = "e_kfocus" /\ ~element_detached
    /\ log' = Append(log, <<"focus", selector>>)
    /\ pc' = "e_ktype"
    /\ UNCHANGED <<hasPage, tasks, getDomLocals, last_clicked, dom, op, args,
                   clickLocals, result, bulk, ret>>

EnterKbFocusRaise ==
    /\ pc = "e_kfocus"
    /\ EnterExcept(<<"focus_failed", selector>>,
                   IF element_detached THEN ErrDetached ELSE ErrPlaywright)

\* keystrokes go to the focused element, the one focused the step before;
\* they are lost when that node has left the document in between
KeyboardType(sel, keys, gone, val) ==
    IF gone THEN val ELSE [val EXCEPT ![sel] = Append(@, keys)]

\* use_keyboard_fill: await page.keyboard.type(text_to_enter, delay=2)
EnterKbType ==
    /\ pc = "e_ktype"
    /\ value' = KeyboardType(selector, text_to_enter, element_detached, value)
    /\ log' = Append(log, <<"type", selector, text_to_enter>>)
    /\ pc' = "e_focus"
    /\ UNCHANGED <<hasPage, tasks, getDomLocals, last_clicked, attached,
                   target, op, args, clickLocals, result, bulk, ret>>

EnterKbTypeRaise ==
    /\ pc = "e_ktype"
    /\ EnterExcept(<<"type_failed", selector>>, ErrPlaywright)

\* mutant of EnterFocus: no space is typed after the focus
EnterFocus_NoSpace ==
    /\ pc = "e_focus" /\ ~element_detached
    /\ log' = Append(log, <<"focus", selector>>)
    /\ pc' = "e_sleep"
    /\ UNCHANGED <<hasPage, tasks, getDomLocals, last_clicked, dom, op, args,
                   clickLocals, result, bulk, ret>>

\* await elem.focus()
EnterFocus ==
    /\ pc = "e_focus" /\ ~element_detached
    /\ log' = Append(log, <<"focus", selector>>)
    /\ pc' = "e_space"
    /\ UNCHANGED <<hasPage, tasks, getDomLocals, last_clicked, dom, op, args,
                   clickLocals, result, bulk, ret>>

EnterFocusRaise ==
    /\ pc = "e_focus"
    /\ EnterExcept(<<"focus_failed", selector>>,
                   IF element_detached THEN ErrDetached ELSE ErrPlaywright)

\* await page.keyboard.type(" ")
EnterSpace ==
    /\ pc = "e_space"
    /\ value' = KeyboardType(selector, " ", element_detached, value)
    /\ log' = Append(log, <<"type", selector, " ">>)
    /\ pc' = "e_sleep"
    /\ UNCHANGED <<hasPage, tasks, getDomLocals, last_clicked, attached,
                   target, op, args, clickLocals, result, bulk, ret>>

EnterSpaceRaise ==
    /\ pc = "e_space"
    /\ EnterExcept(<<"type_failed", selector>>, ErrPlaywright)

\* await asyncio.sleep(1); return f"Success. Text ... set successfully ..."
EnterSleep ==
    /\ pc = "e_sleep"
    /\ DoEntertextReturns(EnterSuccessMsg(text_to_enter, selector))
    /\ log' = Append(log, <<"sleep", selector>>)
    /\ UNCHANGED <<hasPage, tasks, getDomLocals, last_clicked, dom, op, args,
                   clickLocals, bulk>>

\* await browser_manager.notify_user(result); return result
EnterNotify ==
    /\ pc = "e_notify"
    /\ log' = Append(log, <<"notify", result>>)
    /\ EnterReturns(result)
    /\ Attempted(selector, text_to_enter, result)
    /\ UNCHANGED <<hasPage, tasks, getDomLocals, last_clicked, dom, op, args,
                   clickLocals, result>>

\* ====================================================== bulk_enter_text
\* bulk_enter_text(entries): results = []
CallBulk(es) ==
    /\ pc = "idle"
    /\ op' = "bulk"
    /\ pc' = "b_loop"
    /\ entries' = es
    /\ results' = <<>>
    /\ last_clicked' = None
    /\ UNCHANGED <<hasPage, tasks, getDomLocals, dom, args, clickLocals,
                   result, log, attempts, ret>>

\* mutant of BulkRemaining: the loop ends at the first entry that failed
BulkRemaining_StopOnError(es, rs) ==
    IF rs # <<>> /\ rs[Len(rs)].result[1] # "Success. Text \""
      THEN 0 ELSE Len(es) - Len(rs)

\* the entries the loop has still to take, given what it has collected
BulkRemaining(es, rs) == Len(es) - Len(rs)

\* for entry in entries: result = await entertext(EnterTextEntry(...))
BulkCallEntertext ==
    /\ pc = "b_loop" /\ BulkRemaining(entries, results) > 0
    /\ LET entry == entries[Len(results) + 1]
       IN /\ selector' = entry.query_selector
          /\ text_to_enter' = entry.text
    /\ use_keyboard_fill' = FALSE
    /\ element' = None
    /\ element_detached' = FALSE
    /\ result' = <<>>
    /\ log' = <<>>
    /\ pc' = "e_page"
    /\ UNCHANGED <<hasPage, tasks, getDomLocals, last_clicked, dom, op,
                   wait_before_execution, element_tag_name, element_value,
                   parent_element, bulk, ret>>

\* return results
BulkReturn ==
    /\ pc = "b_loop" /\ BulkRemaining(entries, results) <= 0
    /\ ret' = Returned(results)
    /\ pc' = "done"
    /\ UNCHANGED <<hasPage, tasks, getDomLocals, last_clicked, dom, op, args,
                   clickLocals, result, bulk, log>>

\* ============================================ get_dom_with_content_type
ContentTypes == {"all_fields", "input_fields", "text_only", "html"}
SupportedTypes == {"all_fields", "input_fields", "text_only"}

UnsupportedError(ct) == <<"Unsupported content_type: ", ct>>
AllFieldsMsg == "Fetched all the fields in the DOM"
InputFieldsMsg == "Fetched only input fields in the DOM"
TextOnlyMsg == "Fetched the text content of the DOM"
TextOnlyFile == "text_only_dom.txt"
ErrWrite == "[Errno 2] No such file or directory"

\* do_get_accessibility_info(page, only_input_fields): the snapshot of the
\* elements of the page, or of its input elements only
AccessibilityInfo(att, only_input_fields) ==
    <<"accessibility",
      IF only_input_fields THEN {s \in att : TagOf(s) = "input"} ELSE att>>

\* document.body.innerText of the page
InnerText(att, val) == <<"innerText", [s \in att |-> val[s]]>>

\* get_dom_with_content_type(content_type): entry
CallGetDom(ct) ==
    /\ pc = "idle"
    /\ op' = "get_dom"
    /\ pc' = "g_page"
    /\ content_type' = ct
    /\ last_clicked' = None
    /\ UNCHANGED <<hasPage, tasks, dom, args, clickLocals, result, bulk, log,
                   extracted_data, user_success_message, ret>>

\* page is None: raise ValueError
GetDomNoPage ==
    /\ pc = "g_page" /\ ~hasPage
    /\ ret' = Raised(NoPageError)
    /\ pc' = "done"
    /\ UNCHANGED <<hasPage, tasks, getDomLocals, last_clicked, dom, op, args,
                   clickLocals, result, bulk, log>>

\* extracted_data = None
GetDomGetPage ==
    /\ pc = "g_page" /\ hasPage
    /\ extracted_data' = None
    /\ pc' = "g_wait"
    /\ UNCHANGED <<hasPage, tasks, last_clicked, dom, op, args, clickLocals,
                   result, bulk, log, content_type, user_success_message,
                   ret>>

\* await wait_for_non_loading_dom_state(page, 2000);
\* user_success_message = ""; a supported type goes on to its extraction
GetDomWait ==
    /\ pc = "g_wait" /\ content_type \in SupportedTypes
    /\ log' = Append(log, <<"wait_dom_ready">>)
    /\ user_success_message' = ""
    /\ pc' = "g_extract"
    /\ UNCHANGED <<hasPage, tasks, last_clicked, dom, op, args, clickLocals,
                   result, bulk, content_type, extracted_data, ret>>

\* mutant of GetDomUnsupported: with no else branch an unknown type falls
\* through to the notification and the return
GetDomUnsupported_FallsThrough ==
    /\ pc = "g_wait" /\ content_type \notin SupportedTypes
    /\ log' = Append(log, <<"wait_dom_ready">>)
    /\ user_success_message' = ""
    /\ pc' = "g_notify"
    /\ UNCHANGED <<hasPage, tasks, last_clicked, dom, op, args, clickLocals,
                   result, bulk, content_type, extracted_data, ret>>

\* else: raise ValueError(f"Unsupported content_type: {content_type}")
GetDomUnsupported ==
    /\ pc = "g_wait" /\ content_type \notin SupportedTypes
    /\ log' = Append(log, <<"wait_dom_ready">>)
    /\ user_success_message' = ""
    /\ ret' = Raised(UnsupportedError(content_type))
    /\ pc' = "done"
    /\ UNCHANGED <<hasPage, tasks, last_clicked, dom, op, args, clickLocals,
                   result, bulk, content_type, extracted_data>>

\* extracted_data = await do_get_accessibility_info(page, only_input_fields)
GetDomFields ==
    /\ pc = "g_extract" /\ content_type \in {"all_fields", "input_fields"}
    /\ extracted_data' =
           Some(AccessibilityInfo(attached, content_type = "input_fields"))
    /\ user_success_message' =
           IF content_type = "all_fields" THEN AllFieldsMsg ELSE InputFieldsMsg
    /\ log' = Append(log, <<"accessibility_info", content_type,
                             AccessibilityInfo(attached,
                                               content_type = "input_fields")>>)
    /\ pc' = "g_notify"
    /\ UNCHANGED <<hasPage, tasks, last_clicked, dom, op, args, clickLocals,
                   result, bulk, content_type, ret>>

\* text_content = await page.evaluate(...); the text is written to
\* text_only_dom.txt; extracted_data = text_content
GetDomText ==
    /\ pc = "g_extract" /\ content_type = "text_only"
    /\ extracted_data' = Some(InnerText(attached, value))
    /\ user_success_message' = TextOnlyMsg
    /\ log' = log \o << <<"inner_text", content_type,
                          InnerText(attached, value)>>,
                        <<"write_file", TextOnlyFile,
                          InnerText(attached, value)>> >>
    /\ pc' = "g_notify"
    /\ UNCHANGED <<hasPage, tasks, last_clicked, dom, op, args, clickLocals,
                   result, bulk, content_type, ret>>

\* the extraction raises (do_get_accessibility_info or page.evaluate on a
\* page that has gone): nothing catches it
GetDomExtractRaise ==
    /\ pc = "g_extract"
    /\ log' = Append(log, <<"extract_failed", content_type, ErrPlaywright>>)
    /\ ret' = Raised(<<ErrPlaywright>>)
    /\ pc' = "done"
    /\ UNCHANGED <<hasPage, tasks, getDomLocals, last_clicked, dom, op, args,
                   clickLocals, result, bulk>>

\* open(...) or f.write(text_content) raises: nothing catches it
GetDomWriteRaise ==
    /\ pc = "g_extract" /\ content_type = "text_only"
    /\ log' = log \o << <<"inner_text", content_type,
                          InnerText(attached, value)>>,
                        <<"write_file_failed", TextOnlyFile, ErrWrite>> >>
    /\ ret' = Raised(<<ErrWrite>>)
    /\ pc' = "done"
    /\ UNCHANGED <<hasPage, tasks, getDomLocals, last_clicked, dom, op, args,
                   clickLocals, result, bulk>>

\* await browser_manager.notify_user(user_success_message);
\* return extracted_data
GetDomNotify ==
    /\ pc = "g_notify"
    /\ log' = Append(log, <<"notify", user_success_message>>)
    /\ ret' = Returned(extracted_data)
    /\ pc' = "done"
    /\ UNCHANGED <<hasPage, tasks, getDomLocals, last_clicked, dom, op, args,
                   clickLocals, result, bulk>>

Next ==
    \/ EnvOpenPage
    \/ EnvClosePage
    \/ \E s \in Selectors : EnvAttach(s)
    \/ \E s \in Selectors : EnvDetach(s)
    \/ Resume
    \/ \E s \in Selectors, w \in Waits : CallClick(s, w)
    \/ ClickNoPage
    \/ ClickGetPage
    \/ ClickHighlight
    \/ ClickSleep
    \/ ClickWaitAttached
    \/ ClickWaitTimeout
    \/ ClickWaitNone
    \/ ClickWaitError
    \/ \E ok \in BOOLEAN : ClickScroll(ok)
    \/ \E ok \in BOOLEAN : ClickVisible(ok)
    \/ ClickTag
    \/ ClickTagRaise
    \/ ClickAttr
    \/ ClickAttrRaise
    \/ ClickParent
    \/ ClickParentRaise
    \/ ClickSelect
    \/ ClickSelectRaise
    \/ ClickFocus
    \/ ClickFocusRaise
    \/ ClickJs
    \/ ClickJsRaise
    \/ ClickNotify
    \/ \E e \in EnterInputs : CallEntertext(e.query_selector, e.text)
    \/ \E e \in EnterInputs, kb \in BOOLEAN :
          CallDoEntertext(e.query_selector, e.text, kb)
    \/ EnterNoPage
    \/ EnterGetPage
    \/ EnterHighlight
    \/ EnterQuery
    \/ EnterQueryNone
    \/ EnterQueryRaise(ErrPlaywright)
    \/ EnterFill
    \/ EnterFillNull
    \/ EnterFillRaise
    \/ EnterKbFocus
    \/ EnterKbFocusRaise
    \/ EnterKbType
    \/ EnterKbTypeRaise
    \/ EnterFocus
    \/ EnterFocusRaise
    \/ EnterSpace
    \/ EnterSpaceRaise
    \/ EnterSleep
    \/ EnterNotify
    \/ \E es \in EntryLists : CallBulk(es)
    \/ BulkCallEntertext
    \/ BulkReturn
    \/ \E ct \in ContentTypes : CallGetDom(ct)
    \/ GetDomNoPage
    \/ GetDomGetPage
    \/ GetDomWait
    \/ GetDomUnsupported
    \/ GetDomFields
    \/ GetDomText
    \/ GetDomExtractRaise
    \/ GetDomWriteRaise
    \/ GetDomNotify

Spec == Init /\ [][Next]_vars

\* ------------------------------------------------------- scheduling
\* What the code guarantees about the progress of a call.  The attachment
\* wait ends within its timeout=2000 (by attachment or by TimeoutError),
\* scroll_into_view_if_needed and wait_for_element_state within their
\* timeout=200 (the timeout branch is the one that is always there), the
\* asyncio.sleep delays after their duration; select_option is given no
\* timeout and falls under the default one of the driver.  The statements
\* between two awaits run to the next await, and the collaborators
\* (get_current_page, highlight_element, notify_user) complete.  The other
\* awaits are given no timeout: element.evaluate, get_attribute,
\* evaluate_handle, focus, page.evaluate, query_selector, keyboard.type
\* end when the page answers, and nothing in the code ends them otherwise.
TimedSteps ==
    \/ ClickSleep
    \/ ClickWaitAttached
    \/ ClickWaitTimeout
    \/ ClickScroll(FALSE)
    \/ ClickVisible(FALSE)
    \/ ClickSelect
    \/ ClickSelectRaise
    \/ EnterSleep
    \/ GetDomWait
    \/ GetDomUnsupported

CollaboratorSteps ==
    \/ ClickNoPage
    \/ ClickGetPage
    \/ ClickHighlight
    \/ ClickNotify
    \/ EnterNoPage
    \/ EnterGetPage
    \/ EnterHighlight
    \/ EnterNotify
    \/ GetDomNoPage
    \/ GetDomGetPage
    \/ GetDomNotify

LoopSteps ==
    \/ BulkCallEntertext
    \/ BulkReturn

\* the positions of a call at an await that is given no timeout
UntimedPcs ==
    {"c_tag", "c_attr", "c_parent", "c_focus", "c_js",
     "e_query", "e_fill", "e_kfocus", "e_ktype", "e_focus", "e_space",
     "g_extract"}

SpecLive ==
    /\ Init
    /\ [][Next]_vars
    /\ WF_vars(TimedSteps)
    /\ WF_vars(CollaboratorSteps)
    /\ WF_vars(LoopSteps)

\* ------------------------------------------------------- two tasks
\* click and entertext are coroutines and take no lock: a caller that has
\* started one (asyncio.gather, create_task) can start another before the
\* first has returned.  The event loop runs one task at a time and, when
\* the running task is suspended at an await, resumes another one.  Switch
\* is that step: the frame of the running task is put aside and the frame
\* of the other task is taken up; the page is shared.
Frame ==
    [op |-> op, pc |-> pc, selector |-> selector,
     text_to_enter |-> text_to_enter,
     wait_before_execution |-> wait_before_execution,
     use_keyboard_fill |-> use_keyboard_fill, element |-> element,
     element_detached |-> element_detached,
     element_tag_name |-> element_tag_name,
     element_value |-> element_value, parent_element |-> parent_element,
     result |-> result, entries |-> entries, results |-> results,
     log |-> log, attempts |-> attempts, last_clicked |-> last_clicked,
     content_type |-> content_type, extracted_data |-> extracted_data,
     user_success_message |-> user_success_message, ret |-> ret]

\* the effects on the page: the waits on it, the element calls, the script
\* evaluations and the keystrokes
PageStepKinds ==
    {"wait_attached", "scroll", "visible", "tag", "get_attribute", "parent",
     "select_option", "focus", "set_target", "js_click", "query_selector",
     "assign_value", "type"}

\* the running task has acted on the page since it was resumed
ActedSinceResumed ==
    \E i \in (mark + 1)..Len(log) : log[i][1] \in PageStepKinds

\* steps, with the run of the running task
StepsNow ==
    IF ActedSinceResumed /\ (steps = <<>> \/ steps[Len(steps)] # current)
    THEN Append(steps, current)
    ELSE steps

Switch ==
    /\ pc # "done" \/ other.pc # "done"
    /\ steps' = StepsNow
    /\ current' = 3 - current
    /\ other' = Frame
    /\ mark' = Len(other.log)
    /\ op' = other.op
    /\ pc' = other.pc
    /\ selector' = other.selector
    /\ text_to_enter' = other.text_to_enter
    /\ wait_before_execution' = other.wait_before_execution
    /\ use_keyboard_fill' = other.use_keyboard_fill
    /\ element' = other.element
    /\ element_detached' = other.element_detached
    /\ element_tag_name' = other.element_tag_name
    /\ element_value' = other.element_value
    /\ parent_element' = other.parent_element
    /\ result' = other.result
    /\ entries' = other.entries
    /\ results' = other.results
    /\ log' = other.log
    /\ attempts' = other.attempts
    /\ last_clicked' = other.last_clicked
    /\ content_type' = other.content_type
    /\ extracted_data' = other.extracted_data
    /\ user_success_message' = other.user_success_message
    /\ ret' = other.ret
    /\ UNCHANGED <<hasPage, dom>>

\* a page with every element attached, on which each task makes one call
InitTwo ==
    /\ hasPage = TRUE
    /\ attached = Selectors
    /\ target = [s \in Selectors |-> FreshTarget(s)]
    /\ value = [s \in Selectors |-> <<>>]
    /\ NoCall
    /\ OneTask

NextTwo ==
    \/ Switch
    \/ \E w \in Waits : CallClick("#lnk", w)
    \/ ClickGetPage
    \/ ClickHighlight
    \/ ClickSleep
    \/ ClickWaitAttached
    \/ ClickWaitError
    \/ \E ok \in BOOLEAN : ClickScroll(ok)
    \/ \E ok \in BOOLEAN : ClickVisible(ok)
    \/ ClickTag
    \/ ClickTagRaise
    \/ ClickFocus
    \/ ClickFocusRaise
    \/ ClickJs
    \/ ClickJsRaise
    \/ ClickNotify
    \/ CallEntertext("#user", "alice")
    \/ EnterGetPage
    \/ EnterHighlight
    \/ EnterQuery
    \/ EnterQueryRaise(ErrPlaywright)
    \/ EnterFill
    \/ EnterFillRaise
    \/ EnterFocus
    \/ EnterFocusRaise
    \/ EnterSpace
    \/ EnterSpaceRaise
    \/ EnterSleep
    \/ EnterNotify

SpecTwo == InitTwo /\ [][NextTwo]_vars

\* ------------------------------------------- collaborators that raise
\* Under Spec highlight_element and notify_user complete, as the
\* fire-and-forget interface of the collaborator has it.  Under SpecCollab
\* either may raise; neither await is inside a try block, so the exception
\* leaves click, entertext and, through entertext, bulk_enter_text.
ErrCollab == <<"highlight/notify collaborator failed">>

ClickHighlightRaise ==
    /\ pc = "c_highlight"
    /\ log' = Append(log, <<"highlight_failed", selector>>)
    /\ ret' = Raised(ErrCollab)
    /\ pc' = "done"
    /\ UNCHANGED <<hasPage, tasks, getDomLocals, last_clicked, dom, op, args,
                   clickLocals, result, bulk>>

ClickNotifyRaise ==
    /\ pc = "c_notify"
    /\ log' = Append(log, <<"notify_failed", result>>)
    /\ ret' = Raised(ErrCollab)
    /\ pc' = "done"
    /\ UNCHANGED <<hasPage, tasks, getDomLocals, last_clicked, dom, op, args,
                   clickLocals, result, bulk>>

\* mutant of EnterHighlightRaise: the await of highlight_element sits
\* inside a handler that turns the exception into the failure string
EnterHighlightRaise_Caught ==
    /\ pc = "e_highlight"
    /\ log' = Append(log, <<"highlight_failed", selector>>)
    /\ result' = EnterErrorMsg(selector, ErrCollab[1])
    /\ pc' = "e_notify"
    /\ UNCHANGED <<hasPage, tasks, getDomLocals, last_clicked, dom, op, args,
                   clickLocals, bulk, ret>>

\* await browser_manager.highlight_element(query_selector, True) raises
EnterHighlightRaise ==
    /\ pc = "e_highlight"
    /\ log' = Append(log, <<"highlight_failed", selector>>)
    /\ ret' = Raised(ErrCollab)
    /\ pc' = "done"
    /\ UNCHANGED <<hasPage, tasks, getDomLocals, last_clicked, dom, op, args,
                   clickLocals, result, bulk>>

EnterNotifyRaise ==
    /\ pc = "e_notify"
    /\ log' = Append(log, <<"notify_failed", result>>)
    /\ ret' = Raised(ErrCollab)
    /\ pc' = "done"
    /\ UNCHANGED <<hasPage, tasks, getDomLocals, last_clicked, dom, op, args,
                   clickLocals, result, bulk>>

\* await browser_manager.notify_user(user_success_message) raises
GetDomNotifyRaise ==
    /\ pc = "g_notify"
    /\ log' = Append(log, <<"notify_failed", user_success_message>>)
    /\ ret' = Raised(ErrCollab)
    /\ pc' = "done"
    /\ UNCHANGED <<hasPage, tasks, getDomLocals, last_clicked, dom, op, args,
                   clickLocals, result, bulk>>

NextCollab ==
    \/ Next
    \/ ClickHighlightRaise
    \/ ClickNotifyRaise
    \/ EnterHighlightRaise
    \/ EnterNotifyRaise
    \/ GetDomNotifyRaise

SpecCollab == Init /\ [][NextCollab]_vars

\* =============================================================== claims
\* reading the log of the current facade call
HasEvent(k) == \E i \in DOMAIN log : log[i][1] = k
CountEvents(k) == Cardinality({i \in DOMAIN log : log[i][1] = k})

ClickEnded == op = "click" /\ pc = "done"

\* the attachment wait of this click timed out or yielded no element
AttachTimedOutOrAbsent ==
    \E i \in DOMAIN log :
        log[i][1] = "wait_failed" /\ log[i][3] \in {ErrTimeout, ErrNotFound}

\* focus, select-option or click have acted on the page
PageActedOn ==
    \/ HasEvent("focus")
    \/ HasEvent("select_option")
    \/ HasEvent("js_click")
    \/ HasEvent("set_target")

ClickRaiseKinds ==
    {"wait_failed", "tag_failed", "get_attribute_failed", "parent_failed",
     "select_option_failed", "focus_failed", "js_failed"}

\* C2: whichever step of the click pipeline raises, the click returns the
\* failure message that tells the caller to retrieve the DOM again
C2_AnyRaiseYieldsFailureMessage ==
    (ClickEnded /\ hasPage /\ \E i \in DOMAIN log : log[i][1] \in ClickRaiseKinds)
        => ret = Returned(UnableToClickMsg(selector))

\* C3: when the evaluation of the in-page click script throws, the outcome
\* of the click is the failure message and not the success message
C3_ScriptFailureIsReported ==
    (ClickEnded /\ HasEvent("js_failed")) =>
        /\ ret.val # ClickedMsg(selector)
        /\ ret = Returned(UnableToClickMsg(selector))

\* C4: a click without a current page raises to the caller, and nothing
\* (highlight, delay, wait, click, notification) has happened before
C4_ClickWithoutPageRaises ==
    (op = "click" /\ ~hasPage) =>
        /\ log = <<>>
        /\ pc \in {"c_page", "done"}
        /\ pc = "done" => ret = Raised(NoPageError)

C4_Witness == ClickEnded /\ ~hasPage /\ ret.kind = "raised"

\* C5 as claimed: entertext without a current page raises to the caller
C5_EntertextWithoutPageRaises ==
    (op = "entertext" /\ pc = "done" /\ ~hasPage) =>
        /\ ret.kind = "raised"
        /\ log = <<>>

\* C5 amended: entertext without a current page returns the string "Error:
\* No active page found. ..." and raises nothing; it highlights, fills,
\* types and notifies nothing
C5_EntertextWithoutPageReturnsError ==
    /\ (op = "entertext" /\ ~hasPage) =>
        /\ log = <<>>
        /\ pc \in {"e_page", "done"}
        /\ pc = "done" => ret = Returned(EnterNoPageMsg)
    /\ (op \in {"entertext", "bulk"} /\ ~hasPage) =>
        \A i \in DOMAIN attempts : attempts[i].result = EnterNoPageMsg

C5_Witness ==
    op = "entertext" /\ pc = "done" /\ ~hasPage /\ ret = Returned(EnterNoPageMsg)

\* a call of entertext or do_entertext has ended and log is its log
EnterEnded ==
    \/ op \in {"entertext", "do_entertext"} /\ pc = "done"
    \/ op = "bulk" /\ pc = "b_loop" /\ Len(results) > 0

\* the outcome of that call
EnterOutcome ==
    IF op = "bulk" THEN results[Len(results)].result ELSE ret.val

\* the steps of the text-entry pipeline that raise
EnterRaiseKinds ==
    {"query_selector_failed", "assign_value_failed", "focus_failed",
     "type_failed"}

\* C6: with a page, entertext on a selector that matches no element
\* returns the not-found failure string and has assigned, focused and typed
\* nothing; when another step raises it returns the failure string that
\* carries the text of that error; in neither case does it raise
C6_EntertextFailuresAreReported ==
    /\ op \in {"entertext", "do_entertext", "bulk"} => ret.kind # "raised"
    /\ (op \in {"entertext", "do_entertext", "bulk"}
          /\ HasEvent("query_selector_none")) =>
        /\ ~HasEvent("assign_value")
        /\ ~HasEvent("focus")
        /\ ~HasEvent("type")
        /\ result = SelectorNotFoundMsg(selector)
    /\ EnterEnded =>
        /\ op # "bulk" => ret.kind = "returned"
        /\ HasEvent("query_selector_none") =>
               EnterOutcome = SelectorNotFoundMsg(selector)
        /\ \A i \in DOMAIN log :
               log[i][1] \in EnterRaiseKinds =>
                   /\ EnterOutcome = EnterErrorMsg(selector, log[i][3])
                   /\ EnterOutcome[4] = log[i][3]

C6_Witness ==
    /\ op = "bulk" /\ pc = "b_loop" /\ hasPage
    /\ Len(results) = 2
    /\ results[1].result = SelectorNotFoundMsg(entries[1].query_selector)
    /\ HasEvent("assign_value")
    /\ \E i \in DOMAIN log : log[i] = <<"type_failed", selector, ErrPlaywright>>
    /\ results[2].result = EnterErrorMsg(selector, ErrPlaywright)

\* no call of the page raised for a reason outside the page's structure
\* (a closed page, a timeout)
NoTransientFault ==
    \A i \in DOMAIN log :
        log[i][1] \in ClickRaiseKinds =>
            log[i][3] \notin {ErrPlaywright, ErrTimeout}

\* C7: for every attached option element the click invokes select-option
\* on the element's parent with the option's value attribute, dispatches no
\* focus and no click script, and returns exactly the message
\* Select menu option "<value>" selected
C7_OptionClickSelectsOption ==
    (ClickEnded /\ element_tag_name = "option" /\ ~element_detached
       /\ NoTransientFault) =>
        /\ \E i \in DOMAIN log :
               /\ log[i][1] = "select_option"
               /\ log[i][2] = ParentOf(selector)
               /\ log[i][3] = ValueAttr(selector)
        /\ ~HasEvent("focus")
        /\ ~HasEvent("js_click")
        /\ ret = Returned(OptionSelectedMsg(ValueAttr(selector)))

\* C8: every click the in-page script dispatches on an anchor comes right
\* after the script has set the anchor's target to _self, so that the
\* anchor's target is _self when it is clicked
C8_AnchorTargetSelfBeforeClick ==
    \A i \in DOMAIN log :
        (log[i][1] = "js_click" /\ TagOf(log[i][2]) = "a") =>
            /\ log[i][3] = "_self"
            /\ i > 1
            /\ log[i - 1] = <<"set_target", log[i][2], "_self">>

C8_Witness ==
    /\ ClickEnded
    /\ selector = "#lnk"
    /\ HasEvent("js_click")
    /\ target["#lnk"] = "_self"
    /\ ret = Returned(ClickedMsg("#lnk"))

\* C9: bulk_enter_text returns one result per entry, in the order of the
\* entries; result i carries the selector of entry i and the outcome of the
\* call of entertext for entry i; every entry is attempted, whatever the
\* outcomes of the others
C9_BulkResultsMatchEntries ==
    /\ op = "bulk" =>
        /\ Len(results) = Len(attempts)
        /\ Len(results) <= Len(entries)
        /\ \A i \in DOMAIN results :
               /\ results[i].query_selector = entries[i].query_selector
               /\ attempts[i].query_selector = entries[i].query_selector
               /\ attempts[i].text = entries[i].text
               /\ results[i].result = attempts[i].result
    /\ (op = "bulk" /\ pc = "done") =>
        /\ ret = Returned(results)
        /\ Len(ret.val) = Len(entries)

C9_Witness ==
    /\ op = "bulk" /\ pc = "done" /\ hasPage
    /\ Len(entries) = 2
    /\ entries[1].query_selector # entries[2].query_selector
    /\ ret.val[1].result = SelectorNotFoundMsg(entries[1].query_selector)
    /\ ret.val[2].result =
           EnterSuccessMsg(entries[2].text, entries[2].query_selector)

\* a call of click or entertext made with a page has ended
FacadeEnded ==
    /\ hasPage
    /\ \/ op \in {"click", "entertext"} /\ pc = "done"
       \/ op = "bulk" /\ pc = "b_loop" /\ Len(results) > 0

FacadeOutcome ==
    IF op = "bulk" THEN results[Len(results)].result ELSE ret.val

\* C10: in a call of click or entertext with a page, the highlight is the
\* first thing that happens and happens once, and the notification is the
\* last thing that happens and happens once, on success and on failure,
\* with the outcome string the call returns
C10_HighlightFirstNotifyLast ==
    /\ (op \in {"click", "entertext", "bulk"} /\ log # <<>>) =>
        /\ log[1] = <<"highlight", selector>>
        /\ CountEvents("highlight") = 1
        /\ CountEvents("notify") <= 1
        /\ HasEvent("notify") => log[Len(log)][1] = "notify"
    /\ FacadeEnded =>
        /\ CountEvents("notify") = 1
        /\ log[Len(log)] = <<"notify", FacadeOutcome>>
        /\ op # "bulk" => ret = Returned(FacadeOutcome)

C10_Witness ==
    /\ ClickEnded /\ hasPage
    /\ HasEvent("focus_failed")
    /\ log[1] = <<"highlight", selector>>
    /\ log[Len(log)] = <<"notify", UnableToClickMsg(selector)>>
    /\ ret = Returned(UnableToClickMsg(selector))

\* a call in direct-assignment mode: entertext always, do_entertext unless
\* it is asked for simulated typing
DirectMode ==
    /\ op \in {"entertext", "bulk", "do_entertext"}
    /\ ~use_keyboard_fill

\* C11: entertext runs do_entertext in direct-assignment mode; in that mode
\* the only keystroke of the call is one space, typed after the in-page
\* assignment has written the text to the element's value; the text itself
\* is never typed
C11_DirectModeTypesOnlyTheSpace ==
    /\ op \in {"entertext", "bulk"} => ~use_keyboard_fill
    /\ DirectMode =>
        /\ CountEvents("type") <= 1
        /\ \A i \in DOMAIN log :
               log[i][1] = "type" =>
                   /\ log[i] = <<"type", selector, " ">>
                   /\ \E j \in 1..(i - 1) :
                          log[j] = <<"assign_value", selector, text_to_enter>>
        /\ (pc = "e_focus" /\ selector \in attached /\ ~element_detached) =>
               value[selector] = <<text_to_enter>>
        /\ (EnterEnded /\ EnterOutcome = EnterSuccessMsg(text_to_enter, selector)) =>
               /\ CountEvents("type") = 1
               /\ CountEvents("assign_value") = 1

C11_Witness ==
    /\ op = "entertext" /\ pc = "done"
    /\ ret = Returned(EnterSuccessMsg("alice", "#user"))
    /\ value["#user"] = <<"alice", " ">>
    /\ CountEvents("type") = 1
    /\ \E i \in DOMAIN log : log[i] = <<"assign_value", "#user", "alice">>

\* a facade call is running
Calling == pc \notin {"idle", "done"}

PipelineOf(l) ==
    LET Keep(ev) == ev[1] \notin {"highlight", "sleep", "notify"}
    IN  [i \in DOMAIN SelectSeq(l, Keep) |-> SelectSeq(l, Keep)[i][1]]

\* a full run of the generic branch
GenericRun(sel) ==
    IF TagOf(sel) = "a"
    THEN <<"wait_attached", "scroll", "visible", "tag", "focus",
           "set_target", "js_click">>
    ELSE <<"wait_attached", "scroll", "visible", "tag", "focus", "js_click">>

\* C13: a click that follows a successful click with the same selector, the
\* element staying in the page over both calls, starts from fresh locals and
\* an empty log, runs its own attachment wait, tag read, focus and click
\* script, and returns the success message again
C13_SecondClickRunsWholePipeline ==
    (op = "click" /\ last_clicked = Some(selector)) =>
        /\ TagOf(selector) # "option"
        /\ pc \in {"c_page", "c_highlight", "c_sleep", "c_wait"} =>
               /\ element = None
               /\ element_tag_name = ""
               /\ result = <<>>
               /\ PipelineOf(log) = <<>>
        /\ (pc = "done" /\ NoTransientFault /\ ~HasEvent("js_failed")) =>
               /\ ret = Returned(ClickedMsg(selector))
               /\ PipelineOf(log) = GenericRun(selector)

C13_Witness ==
    /\ op = "click" /\ pc = "done"
    /\ last_clicked = Some("#lnk")
    /\ selector = "#lnk"
    /\ ret = Returned(ClickedMsg("#lnk"))
    /\ PipelineOf(log) = GenericRun("#lnk")

GetDomEnded == op = "get_dom" /\ pc = "done"

\* the extraction a content type stands for
ExtractionOf(ct) ==
    IF ct = "text_only" THEN "inner_text" ELSE "accessibility_info"

\* C14: an unsupported content_type ends get_dom_with_content_type with a
\* ValueError, with no data extracted and no notification; a supported one,
\* on an active page whose extraction completes, sends exactly one
\* notification, as its last effect, and returns the extracted data
C14_UnsupportedRaisesSupportedNotifiesOnce ==
    GetDomEnded =>
        /\ content_type \notin SupportedTypes =>
               /\ ret \in {Raised(UnsupportedError(content_type)),
                           Raised(NoPageError)}
               /\ hasPage => ret = Raised(UnsupportedError(content_type))
               /\ extracted_data = None
               /\ ~HasEvent("notify")
               /\ ~HasEvent("accessibility_info") /\ ~HasEvent("inner_text")
        /\ (content_type \in SupportedTypes /\ hasPage
              /\ ~HasEvent("extract_failed")
              /\ ~HasEvent("write_file_failed")) =>
               /\ CountEvents("notify") = 1
               /\ log[Len(log)][1] = "notify"
               /\ CountEvents(ExtractionOf(content_type)) = 1
               /\ \E i \in DOMAIN log :
                      /\ log[i][1] = ExtractionOf(content_type)
                      /\ log[i][2] = content_type
                      /\ ret = Returned(Some(log[i][3]))
                      /\ content_type = "input_fields" =>
                             \A s \in log[i][3][2] : TagOf(s) = "input"
        /\ ret.kind = "raised" => ~HasEvent("notify")

C14_Witness ==
    /\ GetDomEnded /\ hasPage
    /\ content_type = "html"
    /\ ret = Raised(UnsupportedError("html"))
    /\ log = << <<"wait_dom_ready">> >>

\* the outcome of a click as the events other than the two soft waits
\* determine it
OutcomeWithoutSoftWaits(l) ==
    LET Hard(ev) == ev[1] \notin {"scroll", "visible"}
        h == SelectSeq(l, Hard)
    IN  IF \E i \in DOMAIN h : h[i][1] \in (ClickRaiseKinds \ {"js_failed"})
        THEN UnableToClickMsg(selector)
        ELSE IF \E i \in DOMAIN h : h[i][1] = "select_option"
        THEN OptionSelectedMsg(element_value)
        ELSE ClickedMsg(selector)

\* C15: whether the scroll and the visibility wait succeed or fail, the
\* visibility wait follows the scroll and the tag read follows the
\* visibility wait, the branch of the tag is executed, and the outcome of
\* the click is the one the other steps give, the same for the four
\* combinations of the two waits
C15_SoftWaitsNeverChangeTheOutcome ==
    (op = "click") =>
        /\ \A i \in DOMAIN log :
               /\ log[i][1] = "scroll" =>
                      /\ i > 1 /\ log[i - 1][1] = "wait_attached"
                      /\ IF i = Len(log)
                         THEN pc = "c_visible"
                         ELSE log[i + 1][1] = "visible"
               /\ log[i][1] = "visible" =>
                      IF i = Len(log)
                      THEN pc = "c_tag"
                      ELSE log[i + 1][1] \in {"tag", "tag_failed"}
               /\ log[i][1] = "tag" =>
                      IF i = Len(log)
                      THEN pc = IF TagOf(selector) = "option"
                                THEN "c_attr" ELSE "c_focus"
                      ELSE log[i + 1][1] \in
                               IF TagOf(selector) = "option"
                               THEN {"get_attribute", "get_attribute_failed"}
                               ELSE {"focus", "focus_failed"}
        /\ (pc = "done" /\ hasPage) =>
               ret = Returned(OutcomeWithoutSoftWaits(log))

C15_Witness ==
    /\ ClickEnded
    /\ selector = "#opt"
    /\ \E i \in DOMAIN log : log[i] = <<"scroll", "#opt", FALSE>>
    /\ \E i \in DOMAIN log : log[i] = <<"visible", "#opt", FALSE>>
    /\ HasEvent("select_option")
    /\ ret = Returned(OptionSelectedMsg(ValueAttr("#opt")))

\* the steps inside the try block of do_click whose exception reaches its
\* handler
HardStepFailures ==
    {"wait_failed", "tag_failed", "get_attribute_failed", "parent_failed",
     "select_option_failed", "focus_failed"}

\* the click returned the failure message
ClickFailed == ClickEnded /\ ret = Returned(UnableToClickMsg(selector))

\* C16 (as stated): a click returns the failure outcome only when its
\* attachment wait has failed
C16_OnlyAttachFailureFails == ClickFailed => HasEvent("wait_failed")

\* C16 (amended): a click returns the failure outcome exactly when one of
\* the awaits inside the try block has raised: the attachment wait, the tag
\* read, the attribute read, the parent lookup, select_option or focus; the
\* failing step is the last one before the notification
C16_EveryStepInTryIsHard ==
    (ClickEnded /\ hasPage) =>
        /\ ClickFailed <=> (\E i \in DOMAIN log : log[i][1] \in HardStepFailures)
        /\ \A i \in DOMAIN log :
               log[i][1] \in HardStepFailures =>
                   /\ i + 1 = Len(log)
                   /\ log[i + 1] = <<"notify", UnableToClickMsg(selector)>>

C16_Witness ==
    /\ ClickFailed
    /\ HasEvent("wait_attached")
    /\ \E i \in DOMAIN log : log[i] = <<"focus_failed", selector, ErrDetached>>

\* log[i] is the completed fill step: the in-page assignment, or with
\* use_keyboard_fill the typing of the text (the first typing of the call)
IsFill(i) ==
    \/ log[i][1] = "assign_value"
    \/ /\ use_keyboard_fill
       /\ log[i][1] = "type"
       /\ \A j \in 1..(i - 1) : log[j][1] # "type"

SpaceKeystrokes == {j \in DOMAIN log : log[j] = <<"type", selector, " ">>}

\* C17: in both fill modes the step after the completed fill is the focus
\* of the element, the step after that focus the typing of one space, the
\* step after it the settle delay; the success outcome exists only after
\* the three have run in that order, with one space typed in the call
C17_FocusSpaceDelayThenSuccess ==
    (op \in {"entertext", "do_entertext", "bulk"}) =>
        /\ \A i \in DOMAIN log :
               IsFill(i) =>
                   /\ IF Len(log) = i
                      THEN pc = "e_focus"
                      ELSE log[i + 1][1] \in {"focus", "focus_failed"}
                   /\ (Len(log) > i /\ log[i + 1][1] = "focus") =>
                          IF Len(log) = i + 1
                          THEN pc = "e_space"
                          ELSE \/ log[i + 2] = <<"type", selector, " ">>
                               \/ log[i + 2][1] = "type_failed"
                   /\ (Len(log) > i + 1 /\ log[i + 2][1] = "type") =>
                          IF Len(log) = i + 2
                          THEN pc = "e_sleep"
                          ELSE log[i + 3] = <<"sleep", selector>>
        /\ (result = EnterSuccessMsg(text_to_enter, selector)) =>
               /\ pc \in {"e_notify", "done", "b_loop"}
               /\ Cardinality(SpaceKeystrokes) = 1
               /\ \E i \in DOMAIN log :
                      /\ IsFill(i)
                      /\ Len(log) >= i + 3
                      /\ log[i + 1] = <<"focus", selector>>
                      /\ log[i + 2] = <<"type", selector, " ">>
                      /\ log[i + 3] = <<"sleep", selector>>
        /\ (EnterEnded /\ EnterOutcome = EnterSuccessMsg(text_to_enter, selector))
               => result = EnterSuccessMsg(text_to_enter, selector)

C17_Witness ==
    /\ op = "do_entertext" /\ pc = "done" /\ use_keyboard_fill
    /\ ret = Returned(EnterSuccessMsg("s3cret", "#pass"))
    /\ log = << <<"query_selector", "#pass">>, <<"focus", "#pass">>,
                <<"type", "#pass", "s3cret">>, <<"focus", "#pass">>,
                <<"type", "#pass", " ">>, <<"sleep", "#pass">> >>

\* the positions of a call of entertext
EnterPcs ==
    {"e_page", "e_highlight", "e_query", "e_fill", "e_kfocus", "e_ktype",
     "e_focus", "e_space", "e_sleep", "e_notify"}

\* C18: inside bulk_enter_text the interaction of an entry starts at the
\* head of the loop only, when the outcome of every entry started before
\* has been recorded, and it starts for the first entry without outcome;
\* while the interaction runs it stays the one of that entry, and the
\* next thing recorded is its outcome, which takes the call back to the
\* head of the loop
C18_BulkEntriesOneAtATime ==
    [][ /\ (op' = "bulk" /\ pc' = "e_page" /\ pc # "e_page") =>
               /\ pc = "b_loop"
               /\ Len(attempts) = Len(results)
               /\ Len(results) < Len(entries)
               /\ selector' = entries[Len(results) + 1].query_selector
               /\ text_to_enter' = entries[Len(results) + 1].text
               /\ log' = <<>>
        /\ (op = "bulk" /\ pc \in EnterPcs) =>
               /\ pc' \in EnterPcs \cup {"b_loop"}
               /\ entries' = entries
               /\ selector' = selector /\ text_to_enter' = text_to_enter
               /\ selector = entries[Len(results) + 1].query_selector
               /\ \A i \in DOMAIN log :
                      log[i][1] # "notify" => log[i][2] = selector
               /\ IF pc' = "b_loop"
                  THEN /\ Len(results') = Len(results) + 1
                       /\ results'[Len(results')].query_selector = selector
                  ELSE results' = results
      ]_vars

C18_Witness ==
    /\ op = "bulk" /\ pc = "e_fill"
    /\ Len(entries) = 2 /\ Len(results) = 1
    /\ entries[1].query_selector # entries[2].query_selector
    /\ selector = entries[2].query_selector
    /\ results[1].result =
           EnterSuccessMsg(entries[1].text, entries[1].query_selector)

\* C19: the page steps of two invocations never interleave: no page step
\* of one task lies between two page steps of the other
C19_InvocationsNeverInterleave ==
    ~ \E i, j, k \in DOMAIN StepsNow :
          /\ i < j /\ j < k
          /\ StepsNow[i] = StepsNow[k]
          /\ StepsNow[j] # StepsNow[i]

\* C20: when the evaluation of the click script completes, the click
\* returns the success message only if the script, resolving the selector
\* again inside the page, found the element and dispatched the click on it;
\* when it found none the outcome is not the success message
C20_SuccessOnlyIfScriptClicked ==
    (ClickEnded /\ ~HasEvent("js_failed")
       /\ ret = Returned(ClickedMsg(selector))) =>
        HasEvent("js_click")

\* highlight_element or notify_user has raised in the current call
CollaboratorRaised ==
    \E i \in DOMAIN log : log[i][1] \in {"highlight_failed", "notify_failed"}

\* C21: an exception of highlight_element or notify_user ends click and
\* entertext at once with that exception and never with an outcome string;
\* inside bulk_enter_text it ends the whole call: no list is returned,
\* the entry whose call raised gets no result, and no later entry is
\* attempted
C21_CollaboratorExceptionPropagates ==
    (op \in {"click", "entertext", "bulk"} /\ CollaboratorRaised) =>
        /\ pc = "done"
        /\ ret = Raised(ErrCollab)
        /\ log[Len(log)][1] \in {"highlight_failed", "notify_failed"}
        /\ Cardinality({i \in DOMAIN log :
               log[i][1] \in {"highlight_failed", "notify_failed"}}) = 1
        /\ log[Len(log)][1] = "highlight_failed" => Len(log) = 1
        /\ op = "bulk" =>
               /\ Len(results) < Len(entries)
               /\ Len(attempts) = Len(results)
               /\ selector = entries[Len(results) + 1].query_selector
               /\ \A i \in DOMAIN log :
                      log[i][1] \notin {"notify", "notify_failed"} =>
                          log[i][2] = selector

C21_Witness ==
    /\ op = "bulk" /\ pc = "done" /\ hasPage
    /\ Len(entries) = 2
    /\ entries[1].query_selector # entries[2].query_selector
    /\ results = <<>> /\ attempts = <<>>
    /\ \E i \in DOMAIN log : log[i][1] = "notify_failed"
    /\ value[entries[1].query_selector] = <<entries[1].text, " ">>
    /\ value[entries[2].query_selector] = <<>>
    /\ ret = Raised(ErrCollab)

\* the fill of the current call of entertext has completed and the focus
\* or the space keystroke after it has raised: log[i] is that failure
FailedAfterFill(i) ==
    /\ log[i][1] \in {"focus_failed", "type_failed"}
    /\ \E j \in 1..(i - 1) : IsFill(j)

\* C22: when the fill has completed and the focus or the space keystroke
\* after it raises, the call returns the failure string that carries the
\* text of the error, and the element, as long as it stays in the page,
\* keeps the text the fill has given it: a failure outcome with a changed
\* value
C22_FailureAfterFillKeepsValue ==
    (op \in {"entertext", "do_entertext", "bulk"}) =>
        \A i \in DOMAIN log :
            FailedAfterFill(i) =>
                /\ pc \in {"e_notify", "done", "b_loop"}
                /\ result = EnterErrorMsg(selector, log[i][3])
                /\ EnterEnded => EnterOutcome = EnterErrorMsg(selector, log[i][3])
                /\ (selector \in attached /\ ~element_detached) =>
                       /\ value[selector] # <<>>
                       /\ value[selector][Len(value[selector])] = text_to_enter
                       /\ ~use_keyboard_fill =>
                              value[selector] = <<text_to_enter>>

C22_Witness ==
    /\ op = "entertext" /\ pc = "done"
    /\ selector = "#user" /\ "#user" \in attached /\ ~element_detached
    /\ \E i \in DOMAIN log :
           /\ FailedAfterFill(i)
           /\ log[i] = <<"type_failed", "#user", ErrPlaywright>>
    /\ ret = Returned(EnterErrorMsg("#user", ErrPlaywright))
    /\ value["#user"] = <<"alice">>

=============================================================================
